---------------------------- MODULE Spec2Model ----------------------------
(***************************************************************************)
(* Hessian-regularised next-best-view selection (active/H_reg.py), the     *)
(* scene's training / candidate index bookkeeping (scene/__init__.py) and  *)
(* the selection round of the 4D training loop (active_train.py).          *)
(*                                                                         *)
(* Numbers.  Curvature vectors hold integers.  A vector that came from a  *)
(* render with a non-finite image is NaN as a whole (nan = TRUE).          *)
(* torch.reciprocal(H_train + reg_lambda) is kept exactly, as the vector   *)
(* of its denominators: entry d stands for 1 / den[d], and 1 / 0 is +inf.  *)
(* An acquisition score is NaN, -inf, +inf or a finite rational; finite    *)
(* scores of one iteration share the positive factor |den[1]|*...*|den[D]| *)
(* and are kept multiplied by it, so they are integers that compare as the *)
(* floats do.  A sum of two tensor entries is rounded as float32 rounds    *)
(* it, to 24 significant bits, nearest-even; products and quotients are    *)
(* kept exact.                                                             *)
(***************************************************************************)
EXTENDS Integers, Sequences, FiniteSets, TLC

\* ------------------------------------------------------------------ bounds
NumCams == 3        \* len(scene_info.train_cameras): the camera index universe
NumTestCams == 1    \* len(scene_info.test_cameras)
MaxViews == 2       \* largest value schema.num_views_to_add returns
MaxIter == 2        \* train_iter of scene_reconstruction_4D

\* reg_lambda values the selector is constructed with (args.reg_lambda)
RegLambdas == {0, 1}

\* finite per-view gradient vectors the renderer's backward pass can leave
VecSet == {<<1, 0>>, <<-1, 2>>}

\* candidate_views_filter values the schema can supply ("None": no filter)
Filters == {"None", "even"}

\* ------------------------------------------------------- sequence helpers
Range(s) == {s[k] : k \in DOMAIN s}

Min(S) == CHOOSE x \in S : \A y \in S : x <= y

RECURSIVE sorted(_)
\* Python's sorted(list(S)) for a set of integers: ascending order
sorted(S) == IF S = {} THEN << >> ELSE <<Min(S)>> \o sorted(S \ {Min(S)})

PopAt_mut(s, k) == s
\* list.pop(k) leaves the list without its k-th entry (1-based here)
PopAt(s, k) == [j \in 1..(Len(s) - 1) |-> IF j < k THEN s[j] ELSE s[j + 1]]

\* list(reversed(s))
Reverse(s) == [j \in DOMAIN s |-> s[Len(s) + 1 - j]]

NoDup(s) == \A a, b \in DOMAIN s : a # b => s[a] # s[b]

\* ------------------------------------------------------------------ state
VARIABLES
    I_test, I_acq_reg, reg_lambda,      \* HRegSelector fields
    filter_out_grad,                    \* args.filter_out_grad
    filter_out_idx,                     \* HRegSelector.filter_out_idx
    numel,                              \* p.numel() of the six tensors gaussians.capture()[1:7]
    grad,                               \* the .grad buffers of params (<< >>: None)
    train_idxs, candidate_views_filter, \* Scene fields
    all_train_set,                      \* Scene.all_train_set = set(range(num_views))
    pc,                                 \* where the process is
    iteration,                          \* loop variable of scene_reconstruction_4D
    selected_bound, selected_views,     \* the loop's local selected_views (bound or not)
    last_pth,                           \* content of <model_path>/last.pth (<< >>: no file)
    crash,                              \* the uncaught exception that ended the process
    num_views, viewpoint_cams, candidate_cameras, candidate_views, pos,
    H_train, H_candidates, acq_scores, selected_idxs,   \* locals of nbvs
    I_train,                            \* torch.reciprocal(H_train + reg_lambda)
    outcome,                            \* how the nbvs call ended
    raised_in,                          \* the loop of nbvs that raised RuntimeError
    polls,                              \* calls of exit_func in this nbvs call
    renderLog                           \* modified_render calls of this nbvs call

cfg == <<I_test, I_acq_reg, reg_lambda, filter_out_grad, filter_out_idx, numel, all_train_set>>
loopv == <<iteration, selected_bound, selected_views, last_pth, crash>>
vars == <<I_test, I_acq_reg, reg_lambda, filter_out_grad, filter_out_idx, numel, all_train_set, grad, I_train,
          train_idxs, candidate_views_filter, pc,
          iteration, selected_bound, selected_views, last_pth, crash,
          num_views, viewpoint_cams, candidate_cameras, candidate_views, pos,
          H_train, H_candidates, acq_scores, selected_idxs, outcome, raised_in, polls,
          renderLog>>

\* ------------------------------------------------------ curvature vectors
Dims == DOMAIN (CHOOSE v \in VecSet : TRUE)
ZeroV == [d \in Dims |-> 0]
\* a view's vector: nan = TRUE when it holds non-finite values
Vec(v) == [nan |-> FALSE, v |-> v]
NaNVec == [nan |-> TRUE, v |-> ZeroV]

params_mut == <<0, 1, 2, 3, 4, 5>>
\* params = [p for i, p in enumerate(params) if i not in self.filter_out_idx]:
\* the positions in gaussians.capture()[1:7] of the tensors that stay
params == SelectSeq(<<0, 1, 2, 3, 4, 5>>, LAMBDA i : i \notin Range(filter_out_idx))

\* sum(p.numel() for p in ps)
RECURSIVE sum_numel(_)
sum_numel(ps) == IF ps = << >> THEN 0 ELSE numel[Head(ps) + 1] + sum_numel(Tail(ps))

\* torch.zeros(sum(p.numel() for p in params))
torch_zeros == Vec([d \in 1..sum_numel(params) |-> 0])

\* element counts of the six tensors with n elements outside the rotation
NumelWith(n) == <<n - 1, 0, 0, 0, 4, 1>>

Abs(x) == IF x < 0 THEN -x ELSE x
Sgn(x) == IF x < 0 THEN -1 ELSE IF x > 0 THEN 1 ELSE 0

\* significand bits of the tensors' dtype, torch.float32
FloatMantissa == 24

RECURSIVE Ulp(_)
\* the spacing of float32 values around the magnitude a (1 below 2^24)
Ulp(a) == IF a < 2^FloatMantissa THEN 1 ELSE 2 * Ulp(a \div 2)

\* an integer rounded to the nearest float32 value, ties to the even significand
fl(x) ==
    LET a == Abs(x)
        u == Ulp(a)
        q == a \div u
        rem == a % u
        up == 2 * rem > u \/ (2 * rem = u /\ q % 2 = 1)
    IN Sgn(x) * (IF up THEN (q + 1) * u ELSE q * u)

\* elementwise a + b of two tensors (NaN is absorbing)
VAdd(a, b) ==
    IF a.nan \/ b.nan THEN NaNVec
    ELSE Vec([d \in DOMAIN a.v |-> fl(a.v[d] + b.v[d])])

VAddScalar_mut(a, r) ==
    IF a.nan THEN NaNVec ELSE Vec([d \in DOMAIN a.v |-> fl(a.v[d] - r)])
\* tensor + python scalar
VAddScalar(a, r) ==
    IF a.nan THEN NaNVec ELSE Vec([d \in DOMAIN a.v |-> fl(a.v[d] + r)])

RECURSIVE VSum(_)
\* sum of a list of vectors, starting from zeros
VSum(vs) == IF vs = << >> THEN torch_zeros ELSE VAdd(VSum(Tail(vs)), Head(vs))

\* torch.reciprocal(x): kept as the denominators; den[d] = 0 stands for +inf
torch_reciprocal(x) == [nan |-> x.nan, den |-> x.v]

RECURSIVE ProdAbs(_, _)
\* |den[d]| multiplied over the dimensions in S
ProdAbs(den, S) ==
    IF S = {} THEN 1
    ELSE LET d == CHOOSE x \in S : TRUE IN Abs(den[d]) * ProdAbs(den, S \ {d})

RECURSIVE SumScaled(_, _, _)
\* sum over d in S of a[d] / den[d], times the common factor |den[1]|*...*|den[D]|
SumScaled(a, den, S) ==
    IF S = {} THEN 0
    ELSE LET d == CHOOSE x \in S : TRUE
         IN a[d] * Sgn(den[d]) * ProdAbs(den, (DOMAIN den) \ {d}) + SumScaled(a, den, S \ {d})

NaNScore == [k |-> "nan", n |-> 0]
PInf == [k |-> "pinf", n |-> 0]
NInf == [k |-> "ninf", n |-> 0]
Fin(n) == [k |-> "fin", n |-> n]

\* torch.sum(a * I).item() in IEEE arithmetic: x * inf is +-inf, 0 * inf is NaN,
\* inf - inf is NaN, NaN is absorbing
torch_sum_mul(a, I) ==
    IF a.nan \/ I.nan THEN NaNScore
    ELSE LET Z == {d \in DOMAIN I.den : I.den[d] = 0}
         IN IF \E d \in Z : a.v[d] = 0 THEN NaNScore
            ELSE IF (\E d \in Z : a.v[d] > 0) /\ (\E d \in Z : a.v[d] < 0) THEN NaNScore
            ELSE IF \E d \in Z : a.v[d] > 0 THEN PInf
            ELSE IF \E d \in Z : a.v[d] < 0 THEN NInf
            ELSE Fin(SumScaled(a.v, I.den, DOMAIN I.den))

Negate_mut(s) == s
\* acq_scores *= -1
Negate(s) ==
    CASE s.k = "nan" -> s
      [] s.k = "pinf" -> NInf
      [] s.k = "ninf" -> PInf
      [] OTHER -> Fin(-s.n)

\* s < t for two scores that are not NaN
ScoreLess(s, t) ==
    CASE s.k = "ninf" -> t.k # "ninf"
      [] s.k = "pinf" -> FALSE
      [] OTHER -> t.k = "pinf" \/ (t.k = "fin" /\ s.n < t.n)

\* the positions a maximum-seeking routine may put first: the NaN entries if
\* there are any (NaN ranks above every number), else the largest entries
TopPositions(scores) ==
    LET nans == {k \in DOMAIN scores : scores[k].k = "nan"}
    IN IF nans # {} THEN nans
       ELSE {k \in DOMAIN scores : \A j \in DOMAIN scores : ~ScoreLess(scores[k], scores[j])}

np_argmax_mut(scores) ==
    CHOOSE x \in TopPositions(scores) : \A y \in TopPositions(scores) : y <= x
\* numpy.ndarray.argmax(): the first of them
np_argmax(scores) == Min(TopPositions(scores))

torch_sort_first_mut(scores) == {CHOOSE k \in DOMAIN scores : TRUE}
\* torch.sort(acq_scores, descending=True) is not a stable sort: which of
\* several equal greatest entries comes first is not specified
torch_sort_first(scores) == TopPositions(scores)


\* ------------------------------------------------------------------ scene
\* set(range(num_views)) for num_views = len(scene_info.train_cameras)
CameraRange(n) == 0..(n - 1)

\* the predicate a candidate_views_filter value stands for
FilterPass(f, i) == f = "even" => i % 2 = 0

get_candidate_set_mut_nofilter(tr, f) == sorted(all_train_set \ Range(tr))
get_candidate_set_mut(tr, f) == sorted(all_train_set)
get_candidate_set_mut_order(tr, f) ==
    IF tr # << >> /\ tr[1] = Min(Range(tr))
    THEN sorted(all_train_set \ Range(tr)) ELSE Reverse(sorted(all_train_set \ Range(tr)))
\* Scene.get_candidate_set for train_idxs = tr, candidate_views_filter = f
get_candidate_set(tr, f) ==
    LET candidate_set == sorted(all_train_set \ Range(tr))
    IN IF f # "None" THEN SelectSeq(candidate_set, LAMBDA i : FilterPass(f, i))
       ELSE candidate_set

\* Scene.getTrainCameras: one camera per entry of train_idxs, in list order
getTrainCameras(tr) == [k \in DOMAIN tr |-> <<"train", tr[k]>>]

\* Scene.getTestCameras
getTestCameras == [k \in 1..NumTestCams |-> <<"test", k - 1>>]

\* Scene.getCandidateCameras
getCandidateCameras(tr, f) ==
    LET candidate_set == get_candidate_set(tr, f)
    IN [k \in DOMAIN candidate_set |-> <<"train", candidate_set[k]>>]

\* ----------------------------------------------------------- the renderer
\* what modified_render + backward can leave for one camera: a finite image
\* with a finite gradient, or a non-finite image with a NaN gradient
Renders == {[ok |-> TRUE, H |-> Vec(v)] : v \in VecSet} \cup {[ok |-> FALSE, H |-> NaNVec]}

LogEntry(cam, r) == [cam |-> cam, ok |-> r.ok, H |-> r.H]

\* ------------------------------------------------------------ constructor
\* name2idx of HRegSelector.__init__
name2idx ==
    [k \in {"xyz", "rgb", "sh", "scale", "rotation", "opacity"} |->
        CASE k = "xyz" -> 0 [] k = "rgb" -> 1 [] k = "sh" -> 2
          [] k = "scale" -> 3 [] k = "rotation" -> 4 [] OTHER -> 5]

\* [name2idx[k] for k in args.filter_out_grad], for names that are all keys
FilterOutIdx(names) == [j \in DOMAIN names |-> name2idx[names[j]]]

\* the default of --filter_out_grad
DefaultFilterOut == <<"rotation">>

\* ---------------------------------------------------------- grad buffers
\* pred_img.backward(...): autograd adds the view's gradient to p.grad, or
\* stores it when p.grad is None
backward(g, H) == IF g = << >> THEN <<H>> ELSE <<VAdd(g[1], H)>>

\* cur_H = torch.cat([p.grad.detach().reshape(-1) for p in params])
cat_grad(g) == g[1]

zero_grad_mut(g) == g
\* gaussians.optimizer.zero_grad(set_to_none=True)
zero_grad(g) == << >>

\* ------------------------------------------------------------------- Init
\* schema.init_views: any set of camera indices, listed in ascending or in
\* descending order
InitViews ==
    {sorted(S) : S \in SUBSET all_train_set} \cup {Reverse(sorted(S)) : S \in SUBSET all_train_set}

\* I_train before its first assignment
NoGain == torch_reciprocal(torch_zeros)

NoCall ==
    /\ num_views = 0
    /\ viewpoint_cams = << >>
    /\ candidate_cameras = << >>
    /\ candidate_views = << >>
    /\ pos = 0
    /\ H_train = torch_zeros
    /\ I_train = NoGain
    /\ H_candidates = << >>
    /\ acq_scores = << >>
    /\ selected_idxs = << >>
    /\ outcome = "none"
    /\ raised_in = "none"
    /\ polls = 0
    /\ renderLog = << >>

Init ==
    /\ I_test \in BOOLEAN
    /\ I_acq_reg \in BOOLEAN
    /\ reg_lambda \in RegLambdas
    /\ filter_out_grad = DefaultFilterOut
    /\ filter_out_idx = FilterOutIdx(DefaultFilterOut)
    /\ all_train_set = CameraRange(NumCams)
    /\ numel = NumelWith(2)
    /\ grad = << >>
    /\ train_idxs \in InitViews                     \* schema.init_views
    /\ candidate_views_filter = "None"
    /\ pc = "loop"
    /\ iteration = 1
    /\ selected_bound = FALSE
    /\ selected_views = << >>
    /\ last_pth = << >>
    /\ crash = "none"
    /\ NoCall

\* ---------------------------------------------------------------- actions
\* torch.reciprocal(H + lam)
InformationGainAt(H, lam) == torch_reciprocal(VAddScalar(H, lam))

\* I_train = torch.reciprocal(H_train + self.reg_lambda)
InformationGain(H) == InformationGainAt(H, reg_lambda)

\* one pass of the loop body with schema.num_views_to_add(it) = 0
TrainingIteration ==
    /\ pc = "loop"
    /\ IF iteration < MaxIter
       THEN iteration' = iteration + 1 /\ pc' = "loop"
       ELSE iteration' = iteration /\ pc' = "finished"
    /\ UNCHANGED <<cfg, train_idxs, candidate_views_filter, selected_bound, selected_views,
                   last_pth, crash, num_views, viewpoint_cams, candidate_cameras,
                   candidate_views, pos, H_train, H_candidates, acq_scores, selected_idxs,
                   outcome, raised_in, polls, renderLog, grad, I_train>>

first_pass_cams_mut(tr) == getTrainCameras(tr)
\* the cameras nbvs accumulates H_train over
first_pass_cams(tr) == IF I_test = TRUE THEN getTestCameras ELSE getTrainCameras(tr)

\* the loop body with num_views > 0, up to the first statement of nbvs' first loop
CallNbvs ==
    /\ pc = "loop"
    /\ \E nv \in 1..MaxViews, f \in Filters :
         /\ candidate_views_filter' = f
         /\ num_views' = nv
         /\ candidate_views' = get_candidate_set(train_idxs, f)
         /\ viewpoint_cams' = first_pass_cams(train_idxs)
         /\ candidate_cameras' = getCandidateCameras(train_idxs, f)
    /\ H_train' = torch_zeros
    /\ pos' = 1
    /\ pc' = "train_pass"
    /\ UNCHANGED <<cfg, train_idxs, loopv, H_candidates, acq_scores, selected_idxs,
                   outcome, raised_in, polls, renderLog, grad, I_train>>

\* raise RuntimeError("csm should exit early")
RaiseExit ==
    /\ outcome' = "RuntimeError"
    /\ raised_in' = pc
    /\ pc' = "raised"

Accumulate_mut(H, cur_H) == cur_H
\* H_train += cur_H
Accumulate(H, cur_H) == VAdd(H, cur_H)

TrainPassCam_mut ==
    /\ pc = "train_pass"
    /\ pos <= Len(viewpoint_cams)
    /\ polls' = polls + 1
    /\ \E exit \in BOOLEAN, r \in Renders :
         LET g == backward(grad, r.H)
         IN /\ renderLog' = Append(renderLog, LogEntry(viewpoint_cams[pos], r))
            /\ H_train' = Accumulate(H_train, cat_grad(g))
            /\ grad' = zero_grad(g)
            /\ IF exit
               THEN RaiseExit /\ UNCHANGED pos
               ELSE pos' = pos + 1 /\ UNCHANGED <<pc, outcome, raised_in>>
    /\ UNCHANGED <<cfg, train_idxs, candidate_views_filter, loopv, num_views, viewpoint_cams,
                   candidate_cameras, candidate_views, H_candidates, acq_scores, selected_idxs,
                   I_train>>

\* one iteration of the loop over viewpoint_cams, with renders drawn from R
TrainPassCamOver(R) ==
    /\ pc = "train_pass"
    /\ pos <= Len(viewpoint_cams)
    /\ polls' = polls + 1
    /\ \E exit \in BOOLEAN :
         IF exit
         THEN /\ RaiseExit
              /\ UNCHANGED <<pos, H_train, renderLog, grad>>
         ELSE \E r \in R :
              LET g == backward(grad, r.H)
              IN /\ renderLog' = Append(renderLog, LogEntry(viewpoint_cams[pos], r))
                 /\ H_train' = Accumulate(H_train, cat_grad(g))
                 /\ grad' = zero_grad(g)
                 /\ pos' = pos + 1
                 /\ UNCHANGED <<pc, outcome, raised_in>>
    /\ UNCHANGED <<cfg, train_idxs, candidate_views_filter, loopv, num_views, viewpoint_cams,
                   candidate_cameras, candidate_views, H_candidates, acq_scores, selected_idxs,
                   I_train>>

TrainPassCam == TrainPassCamOver(Renders)

\* after the first loop: the single-view path for num_views = 1, else the
\* candidate pass of the greedy path
TrainPassEnd ==
    /\ pc = "train_pass"
    /\ pos > Len(viewpoint_cams)
    /\ pos' = 1
    /\ IF num_views = 1
       THEN /\ pc' = "single_pass"
            /\ I_train' = InformationGain(H_train)
            /\ acq_scores' = [k \in DOMAIN candidate_cameras |-> Fin(0)]
            /\ UNCHANGED H_candidates
       ELSE /\ pc' = "cand_pass"
            /\ H_candidates' = << >>
            /\ UNCHANGED <<acq_scores, I_train>>
    /\ UNCHANGED <<cfg, train_idxs, candidate_views_filter, loopv, num_views, viewpoint_cams,
                   candidate_cameras, candidate_views, H_train, selected_idxs, outcome,
                   raised_in, polls, renderLog, grad>>

\* one iteration of the loop over candidate_cameras in nbvs, with renders
\* drawn from R
CandPassCamOver(R) ==
    /\ pc = "cand_pass"
    /\ pos <= Len(candidate_cameras)
    /\ polls' = polls + 1
    /\ \E exit \in BOOLEAN :
         IF exit
         THEN /\ RaiseExit
              /\ UNCHANGED <<pos, H_candidates, renderLog, grad>>
         ELSE \E r \in R :
              LET g == backward(grad, r.H)
              IN /\ renderLog' = Append(renderLog, LogEntry(candidate_cameras[pos], r))
                 /\ H_candidates' = Append(H_candidates, cat_grad(g))
                 /\ grad' = zero_grad(g)
                 /\ pos' = pos + 1
                 /\ UNCHANGED <<pc, outcome, raised_in>>
    /\ UNCHANGED <<cfg, train_idxs, candidate_views_filter, loopv, num_views, viewpoint_cams,
                   candidate_cameras, candidate_views, H_train, acq_scores, selected_idxs,
                   I_train>>

CandPassCam == CandPassCamOver(Renders)

CandPassEnd ==
    /\ pc = "cand_pass"
    /\ pos > Len(candidate_cameras)
    /\ pc' = "greedy"
    /\ selected_idxs' = << >>
    /\ UNCHANGED <<cfg, train_idxs, candidate_views_filter, loopv, num_views, viewpoint_cams,
                   candidate_cameras, candidate_views, pos, H_train, H_candidates, acq_scores,
                   outcome, raised_in, polls, renderLog, grad, I_train>>

\* the greedy loop's acq_scores; self.I_acq_reg is the bool True, 1 as a number
GreedyScores(H, Hc) ==
    LET I == InformationGain(H)
    IN IF I_acq_reg
       THEN [k \in DOMAIN Hc |-> torch_sum_mul(VAddScalar(Hc[k], 1), I)]
       ELSE [k \in DOMAIN Hc |-> torch_sum_mul(Hc[k], I)]

Folded_mut(Hc, k) == IF I_acq_reg THEN VAddScalar(Hc[k], 1) ELSE Hc[k]
\* H_candidates.pop(selected_idx): the vector folded into H_train
Folded(Hc, k) == Hc[k]

GreedyIter_mut ==
    /\ pc = "greedy"
    /\ Len(selected_idxs) < num_views
    /\ I_train' = InformationGain(H_train)
    /\ LET scores == GreedyScores(H_train, H_candidates)
       IN IF scores = << >>
          THEN /\ outcome' = "ValueError"
               /\ crash' = "ValueError"
               /\ pc' = "crashed"
               /\ UNCHANGED <<selected_idxs, candidate_views, H_train, H_candidates>>
          ELSE LET selected_idx == np_argmax(scores)
               IN /\ selected_idxs' = <<candidate_views[selected_idx]>> \o selected_idxs
                  /\ candidate_views' = PopAt(candidate_views, selected_idx)
                  /\ H_train' = Accumulate(H_train, Folded(H_candidates, selected_idx))
                  /\ H_candidates' = PopAt(H_candidates, selected_idx)
                  /\ UNCHANGED <<outcome, crash, pc>>
    /\ UNCHANGED <<cfg, train_idxs, candidate_views_filter, iteration, selected_bound,
                   selected_views, last_pth, num_views, viewpoint_cams, candidate_cameras,
                   pos, acq_scores, raised_in, polls, renderLog, grad>>

GreedyIter_mut_pop ==
    /\ pc = "greedy"
    /\ Len(selected_idxs) < num_views
    /\ I_train' = InformationGain(H_train)
    /\ LET scores == GreedyScores(H_train, H_candidates)
       IN IF scores = << >>
          THEN /\ outcome' = "ValueError"
               /\ crash' = "ValueError"
               /\ pc' = "crashed"
               /\ UNCHANGED <<selected_idxs, candidate_views, H_train, H_candidates>>
          ELSE LET selected_idx == np_argmax(scores)
               IN /\ selected_idxs' = Append(selected_idxs, candidate_views[selected_idx])
                  /\ candidate_views' = PopAt(candidate_views, selected_idx)
                  /\ H_train' = Accumulate(H_train, Folded(H_candidates, selected_idx))
                  /\ H_candidates' = PopAt(H_candidates, 1)
                  /\ UNCHANGED <<outcome, crash, pc>>
    /\ UNCHANGED <<cfg, train_idxs, candidate_views_filter, iteration, selected_bound,
                   selected_views, last_pth, num_views, viewpoint_cams, candidate_cameras,
                   pos, acq_scores, raised_in, polls, renderLog, grad>>

GreedyIter_mut_scene ==
    /\ pc = "greedy"
    /\ Len(selected_idxs) < num_views
    /\ I_train' = InformationGain(H_train)
    /\ LET scores == GreedyScores(H_train, H_candidates)
       IN IF scores = << >>
          THEN /\ outcome' = "ValueError"
               /\ crash' = "ValueError"
               /\ pc' = "crashed"
               /\ UNCHANGED <<selected_idxs, candidate_views, H_train, H_candidates, train_idxs>>
          ELSE LET selected_idx == np_argmax(scores)
               IN /\ selected_idxs' = Append(selected_idxs, candidate_views[selected_idx])
                  /\ candidate_views' = PopAt(candidate_views, selected_idx)
                  /\ H_train' = Accumulate(H_train, Folded(H_candidates, selected_idx))
                  /\ H_candidates' = PopAt(H_candidates, selected_idx)
                  /\ train_idxs' = Append(train_idxs, candidate_views[selected_idx])
                  /\ UNCHANGED <<outcome, crash, pc>>
    /\ UNCHANGED <<cfg, candidate_views_filter, iteration, selected_bound,
                   selected_views, last_pth, num_views, viewpoint_cams, candidate_cameras,
                   pos, acq_scores, raised_in, polls, renderLog, grad>>

\* one iteration of "for _ in range(num_views)"; argmax of an empty array
\* raises ValueError, which nothing catches
GreedyIter ==
    /\ pc = "greedy"
    /\ Len(selected_idxs) < num_views
    /\ I_train' = InformationGain(H_train)
    /\ LET scores == GreedyScores(H_train, H_candidates)
       IN IF scores = << >>
          THEN /\ outcome' = "ValueError"
               /\ crash' = "ValueError"
               /\ pc' = "crashed"
               /\ UNCHANGED <<selected_idxs, candidate_views, H_train, H_candidates>>
          ELSE LET selected_idx == np_argmax(scores)
               IN /\ selected_idxs' = Append(selected_idxs, candidate_views[selected_idx])
                  /\ candidate_views' = PopAt(candidate_views, selected_idx)
                  /\ H_train' = Accumulate(H_train, Folded(H_candidates, selected_idx))
                  /\ H_candidates' = PopAt(H_candidates, selected_idx)
                  /\ UNCHANGED <<outcome, crash, pc>>
    /\ UNCHANGED <<cfg, train_idxs, candidate_views_filter, iteration, selected_bound,
                   selected_views, last_pth, num_views, viewpoint_cams, candidate_cameras,
                   pos, acq_scores, raised_in, polls, renderLog, grad>>

\* return selected_idxs
GreedyReturn ==
    /\ pc = "greedy"
    /\ Len(selected_idxs) >= num_views
    /\ outcome' = "returned"
    /\ pc' = "ret"
    /\ UNCHANGED <<cfg, train_idxs, candidate_views_filter, loopv, num_views, viewpoint_cams,
                   candidate_cameras, candidate_views, pos, H_train, H_candidates, acq_scores,
                   selected_idxs, raised_in, polls, renderLog, grad, I_train>>

\* the score select_single_view stores for a candidate with gradient cur_H
SingleScore(H, cur_H) ==
    LET I == InformationGain(H)
        I_acq == IF I_acq_reg THEN VAddScalar(cur_H, reg_lambda) ELSE cur_H
    IN torch_sum_mul(I_acq, I)

SingleCam_mut ==
    /\ pc = "single_pass"
    /\ pos <= Len(candidate_cameras)
    /\ polls' = polls + 1
    /\ \E exit \in BOOLEAN, r \in Renders :
         LET g == backward(grad, r.H)
         IN /\ renderLog' = Append(renderLog, LogEntry(candidate_cameras[pos], r))
            /\ acq_scores' = [acq_scores EXCEPT ![pos] = SingleScore(H_train, cat_grad(g))]
            /\ grad' = zero_grad(g)
            /\ IF exit
               THEN RaiseExit /\ UNCHANGED pos
               ELSE pos' = pos + 1 /\ UNCHANGED <<pc, outcome, raised_in>>
    /\ UNCHANGED <<cfg, train_idxs, candidate_views_filter, loopv, num_views, viewpoint_cams,
                   candidate_cameras, candidate_views, H_train, H_candidates, selected_idxs,
                   I_train>>

\* one iteration of the loop over candidate_cameras in select_single_view,
\* the renderer's outcome drawn from R
SingleCamOver(R) ==
    /\ pc = "single_pass"
    /\ pos <= Len(candidate_cameras)
    /\ polls' = polls + 1
    /\ \E exit \in BOOLEAN :
         IF exit
         THEN /\ RaiseExit
              /\ UNCHANGED <<pos, acq_scores, renderLog, grad>>
         ELSE \E r \in R :
              LET g == backward(grad, r.H)
              IN /\ renderLog' = Append(renderLog, LogEntry(candidate_cameras[pos], r))
                 /\ acq_scores' = [acq_scores EXCEPT ![pos] = SingleScore(H_train, cat_grad(g))]
                 /\ grad' = zero_grad(g)
                 /\ pos' = pos + 1
                 /\ UNCHANGED <<pc, outcome, raised_in>>
    /\ UNCHANGED <<cfg, train_idxs, candidate_views_filter, loopv, num_views, viewpoint_cams,
                   candidate_cameras, candidate_views, H_train, H_candidates, selected_idxs,
                   I_train>>

SingleCam == SingleCamOver(Renders)

RankedScores_mut(scores) ==
    IF I_test = TRUE THEN scores ELSE [k \in DOMAIN scores |-> Negate(scores[k])]
\* acq_scores as ranked: negated when I_test is set
RankedScores(scores) ==
    IF I_test = TRUE THEN [k \in DOMAIN scores |-> Negate(scores[k])] ELSE scores

SingleResults_mut(scores, views) == {<< >>}
\* the lists select_single_view can return: candidate_views[i] for i in
\* indices[:1] of the descending sort (its own num_views defaults to 1)
SingleResults(scores, views) ==
    IF scores = << >> THEN {<< >>}
    ELSE {<<views[k]>> : k \in torch_sort_first(RankedScores(scores))}

\* the sort at the end of select_single_view and its return
SingleRank ==
    /\ pc = "single_pass"
    /\ pos > Len(candidate_cameras)
    /\ selected_idxs' \in SingleResults(acq_scores, candidate_views)
    /\ outcome' = "returned"
    /\ pc' = "ret"
    /\ UNCHANGED <<cfg, train_idxs, candidate_views_filter, loopv, num_views, viewpoint_cams,
                   candidate_cameras, candidate_views, pos, H_train, H_candidates, acq_scores,
                   raised_in, polls, renderLog, grad, I_train>>

\* the locals of nbvs are gone once the caller has dealt with its outcome
EndCall ==
    /\ num_views' = 0
    /\ viewpoint_cams' = << >>
    /\ candidate_cameras' = << >>
    /\ candidate_views' = << >>
    /\ pos' = 0
    /\ H_train' = torch_zeros
    /\ I_train' = NoGain
    /\ H_candidates' = << >>
    /\ acq_scores' = << >>
    /\ selected_idxs' = << >>
    /\ raised_in' = "none"
    /\ polls' = 0
    /\ renderLog' = << >>

\* scene.train_idxs.extend(selected_views), zero_grad, then
\* load_checkpoint(init_ckpt_path, ...): scene_reconstruction_4D binds no
\* init_ckpt_path, so the call raises NameError
ExtendAndReload(views) ==
    /\ train_idxs' = train_idxs \o views
    /\ grad' = zero_grad(grad)
    /\ crash' = "NameError"
    /\ pc' = "crashed"

\* nbvs returned: selected_views is bound to its result
HandleReturn ==
    /\ pc = "ret"
    /\ selected_bound' = TRUE
    /\ selected_views' = selected_idxs
    /\ ExtendAndReload(selected_idxs)
    /\ EndCall
    /\ UNCHANGED <<cfg, candidate_views_filter, iteration, last_pth, outcome>>

ckpt_dict_mut(it, base_iter) ==
    [first_iter |-> it, train_idx |-> train_idxs \o candidate_views, base_iter |-> base_iter]
\* the dict save_checkpoint writes
ckpt_dict(it, base_iter) == [first_iter |-> it, train_idx |-> train_idxs, base_iter |-> base_iter]

\* except RuntimeError: save_checkpoint(gaussians, iteration - 1, scene), then
\* csm.requeue(), which returns or ends the process
HandleAbort ==
    /\ pc = "raised"
    /\ last_pth' = <<ckpt_dict(iteration - 1, 0)>>
    /\ \E returns \in BOOLEAN : pc' = IF returns THEN "after_requeue" ELSE "exited"
    /\ EndCall
    /\ UNCHANGED <<cfg, train_idxs, candidate_views_filter, iteration, selected_bound,
                   selected_views, crash, outcome, grad>>

\* the statements after the try block when requeue returned: reading an
\* unbound selected_views raises UnboundLocalError
AfterRequeue ==
    /\ pc = "after_requeue"
    /\ IF selected_bound
       THEN ExtendAndReload(selected_views)
       ELSE /\ crash' = "UnboundLocalError"
            /\ pc' = "crashed"
            /\ UNCHANGED <<train_idxs, grad>>
    /\ UNCHANGED <<cfg, candidate_views_filter, iteration, selected_bound, selected_views,
                   last_pth, num_views, viewpoint_cams, candidate_cameras, candidate_views,
                   pos, H_train, H_candidates, acq_scores, selected_idxs, outcome,
                   raised_in, polls, renderLog, I_train>>

Next ==
    \/ TrainingIteration
    \/ CallNbvs
    \/ TrainPassCam
    \/ TrainPassEnd
    \/ CandPassCam
    \/ CandPassEnd
    \/ GreedyIter
    \/ GreedyReturn
    \/ SingleCam
    \/ SingleRank
    \/ HandleReturn
    \/ HandleAbort
    \/ AfterRequeue

Spec == Init /\ [][Next]_vars

\* ------------------------------------------------------ stating the claims
InCall == pc \in {"train_pass", "cand_pass", "single_pass", "greedy", "ret"}

\* the candidate set of the scene as it stands
CandidateNow == Range(get_candidate_set(train_idxs, candidate_views_filter))

\* the renders of the first loop of nbvs, and those of the candidate loop
TrainLog == SubSeq(renderLog, 1, IF Len(renderLog) < Len(viewpoint_cams)
                                 THEN Len(renderLog) ELSE Len(viewpoint_cams))
CandLog == SubSeq(renderLog, Len(viewpoint_cams) + 1, Len(renderLog))
LogH(log) == [k \in DOMAIN log |-> log[k].H]

\* the gradient the candidate pass read for camera index i
CandH(i) == CandLog[CHOOSE k \in DOMAIN CandLog : CandLog[k].cam = <<"train", i>>].H

\* C1: the list nbvs builds and returns holds no index twice and no index of
\* scene.train_idxs, for every num_views and every setting of the flags.
C1_NoDupNotTrain ==
    pc \in {"greedy", "ret"} =>
        /\ NoDup(selected_idxs)
        /\ Range(selected_idxs) \cap Range(train_idxs) = {}

C1_Witness ==
    pc = "ret" /\ Len(selected_idxs) = 2 /\ train_idxs # << >>

\* the process is between selection rounds: before one, or after its handling
RoundBoundary == pc \in {"loop", "crashed", "exited", "after_requeue", "finished"}

\* C2 as claimed: at every round boundary the training indices and
\* get_candidate_set() partition all_train_set.
C2_Partition ==
    RoundBoundary =>
        /\ Range(train_idxs) \cup CandidateNow = all_train_set
        /\ Range(train_idxs) \cap CandidateNow = {}

\* C2 as amended: the training indices and the unobserved indices partition
\* all_train_set; get_candidate_set() is the unobserved set when no
\* candidate_views_filter is set and its part passing the filter otherwise; it
\* never meets the training indices; a round's result comes from the
\* candidate set and is in the training set afterwards.
C2_PartitionUnfiltered ==
    /\ Range(train_idxs) \subseteq all_train_set
    /\ CandidateNow \cap Range(train_idxs) = {}
    /\ CandidateNow = {i \in all_train_set \ Range(train_idxs) :
                          FilterPass(candidate_views_filter, i)}
    /\ candidate_views_filter = "None" => Range(train_idxs) \cup CandidateNow = all_train_set
    /\ pc = "ret" => Range(selected_idxs) \subseteq CandidateNow
    /\ selected_bound => Range(selected_views) \subseteq Range(train_idxs)

C2_Witness ==
    /\ pc = "crashed"
    /\ crash = "NameError"
    /\ Len(selected_views) = 2
    /\ Len(train_idxs) = 3

\* C3: a call whose candidate pool holds at least num_views entries never ends
\* in the error of an exhausted pool, and when it returns it returns exactly
\* num_views indices, on the single-view path and on the greedy path.
C3_ExactCount ==
    (num_views >= 1 /\ Len(candidate_cameras) >= num_views) =>
        /\ outcome # "ValueError"
        /\ pc = "greedy" => Len(H_candidates) >= num_views - Len(selected_idxs)
        /\ pc = "ret" => Len(selected_idxs) = num_views

C3_Witness ==
    pc = "ret" /\ num_views = 2 /\ Len(candidate_cameras) = 3 /\ Len(selected_idxs) = 2

\* C4 as claimed: a call whose candidate pool holds fewer than num_views
\* entries never returns a list.
C4_NoShortList ==
    ~(pc = "ret" /\ num_views >= 1 /\ Len(candidate_cameras) < num_views)

\* C5: exit_func is called once before every render, in all three loops; the
\* call that returns true raises at once: that camera is not rendered, and no
\* list is returned.
C5_PollBeforeRender ==
    /\ InCall => (polls = Len(renderLog) /\ outcome # "RuntimeError")
    /\ pc = "raised" =>
          /\ outcome = "RuntimeError"
          /\ polls = Len(renderLog) + 1
          /\ selected_idxs = << >>
          /\ LET cams == IF raised_in = "train_pass" THEN viewpoint_cams
                         ELSE candidate_cameras
             IN \A k \in DOMAIN renderLog : renderLog[k].cam # cams[pos]
    /\ outcome = "RuntimeError" => (pc # "ret" /\ ~selected_bound)

C5_Witness ==
    pc = "raised" /\ raised_in = "single_pass" /\ pos = 2 /\ Len(renderLog) >= 2

\* C6: when exit_func first returns true in the training-set pass, the call
\* has rendered exactly the cameras of that pass before the current one and no
\* candidate camera.
C6_AbortInTrainPass ==
    (pc = "raised" /\ raised_in = "train_pass") =>
        /\ Len(renderLog) = pos - 1
        /\ \A k \in DOMAIN renderLog :
              /\ renderLog[k].cam = viewpoint_cams[k]
              /\ renderLog[k].cam \notin Range(candidate_cameras)
        /\ H_candidates = << >>
        /\ acq_scores = << >>

C6_Witness ==
    /\ pc = "raised"
    /\ raised_in = "train_pass"
    /\ pos = 2
    /\ Len(renderLog) = 1
    /\ candidate_cameras # << >>

\* the scores select_single_view would store for the candidates Hc
SingleScores(H, Hc) == [k \in DOMAIN Hc |-> SingleScore(H, Hc[k])]

DistinctFinite(scores) ==
    \A k \in DOMAIN scores :
        /\ scores[k].k = "fin"
        /\ \A j \in DOMAIN scores : j # k => scores[j].n # scores[k].n

\* C7 as claimed: on the same accumulated information, candidate vectors,
\* reg_lambda and flags, the first iteration of the greedy loop and
\* select_single_view pick the same camera index (stated where all scores are
\* finite and pairwise different, so that neither NaN nor a tie decides).
C7_SamePick ==
    (/\ pc = "greedy"
     /\ selected_idxs = << >>
     /\ H_candidates # << >>
     /\ DistinctFinite(GreedyScores(H_train, H_candidates))
     /\ DistinctFinite(SingleScores(H_train, H_candidates)))
    => SingleResults(SingleScores(H_train, H_candidates), candidate_views)
         = {<<candidate_views[np_argmax(GreedyScores(H_train, H_candidates))]>>}

\* C8 as claimed: once a render has produced a non-finite image the call is
\* over: it neither continues with the next camera nor returns.
C8_NonFiniteFails ==
    (\E k \in DOMAIN renderLog : ~renderLog[k].ok) => ~InCall

\* the first candidate is about to be scored
AtFirstScoring ==
    /\ candidate_cameras # << >>
    /\ \/ pc = "single_pass" /\ pos = 1
       \/ pc = "greedy" /\ selected_idxs = << >>

\* C9 as claimed: when the first candidate is scored, H_train is the sum of
\* the vectors of the cameras of scene.train_idxs, whatever the flags.
C9_TrainSum ==
    AtFirstScoring =>
        /\ Len(TrainLog) = Len(train_idxs)
        /\ \A k \in DOMAIN TrainLog : TrainLog[k].cam = <<"train", train_idxs[k]>>
        /\ H_train = VSum(LogH(TrainLog))

\* the cameras the accumulation runs over: the held-out test cameras when
\* I_test is set, else one camera per entry of scene.train_idxs
AccumulatedCams ==
    IF I_test THEN [k \in 1..NumTestCams |-> <<"test", k - 1>>]
    ELSE [k \in DOMAIN train_idxs |-> <<"train", train_idxs[k]>>]

\* C9 as amended: H_train starts at zero in every call and, when the first
\* candidate is scored, is the sum of the vectors of the cameras the call
\* accumulates over, each rendered once: the cameras of scene.train_idxs when
\* I_test is off, the held-out test cameras when it is on.
C9_FirstPassSum ==
    /\ (pc = "train_pass" /\ pos = 1) => H_train = torch_zeros
    /\ pc = "train_pass" => H_train = VSum(LogH(renderLog))
    /\ AtFirstScoring =>
          /\ Len(TrainLog) = Len(AccumulatedCams)
          /\ \A k \in DOMAIN TrainLog : TrainLog[k].cam = AccumulatedCams[k]
          /\ H_train = VSum(LogH(TrainLog))

C9_Witness ==
    AtFirstScoring /\ I_test /\ train_idxs # << >> /\ Len(TrainLog) = NumTestCams
        /\ ~H_train.nan

CallAcc == {<<2, 1, 1>>, <<-1, 1, 2>>, <<0, 1, 1>>}

\* finite per-view gradient vectors of its candidate renders
CallVecs == {<<1, 1, 0>>, <<0, 0, 2>>, <<1, 0, 1>>}

CallRenders == {[ok |-> TRUE, H |-> Vec(v)] : v \in CallVecs}

\* the state at the first statement of select_single_view's loop
InitSingle ==
    /\ I_test \in BOOLEAN
    /\ I_acq_reg \in BOOLEAN
    /\ reg_lambda \in RegLambdas
    /\ filter_out_grad = DefaultFilterOut
    /\ filter_out_idx = FilterOutIdx(DefaultFilterOut)
    /\ all_train_set = CameraRange(NumCams)
    /\ numel = NumelWith(3)
    /\ grad = << >>
    /\ train_idxs \in InitViews
    /\ candidate_views_filter = "None"
    /\ pc = "single_pass"
    /\ iteration = 1
    /\ selected_bound = FALSE
    /\ selected_views = << >>
    /\ last_pth = << >>
    /\ crash = "none"
    /\ num_views = 1
    /\ viewpoint_cams = << >>
    /\ candidate_cameras = getCandidateCameras(train_idxs, "None")
    /\ candidate_views = get_candidate_set(train_idxs, "None")
    /\ pos = 1
    /\ H_train \in {Vec(h) : h \in CallAcc}
    /\ I_train = InformationGain(H_train)
    /\ H_candidates = << >>
    /\ acq_scores = [k \in DOMAIN candidate_cameras |-> Fin(0)]
    /\ selected_idxs = << >>
    /\ outcome = "none"
    /\ raised_in = "none"
    /\ polls = 0
    /\ renderLog = << >>

SingleCamCall == SingleCamOver(CallRenders)

NextSingle ==
    \/ SingleCamCall
    \/ SingleRank

SpecSingle == InitSingle /\ [][NextSingle]_vars

\* the position in candidate_views of the index a single-view call returned
PickedPos == CHOOSE k \in DOMAIN candidate_views : candidate_views[k] = selected_idxs[1]

RECURSIVE ProdSq(_, _)
\* a[d]^2 multiplied over the dimensions in S
ProdSq(a, S) ==
    IF S = {} THEN 1
    ELSE LET d == CHOOSE x \in S : TRUE IN a[d] * a[d] * ProdSq(a, S \ {d})

RECURSIVE QuotDiff(_, _, _, _)
\* sum over d in S of (c[d] - c2[d]) / a[d], times the positive a[1]^2*...*a[D]^2
QuotDiff(c, c2, a, S) ==
    IF S = {} THEN 0
    ELSE LET d == CHOOSE x \in S : TRUE
         IN (c[d] - c2[d]) * a[d] * ProdSq(a, (DOMAIN a) \ {d}) + QuotDiff(c, c2, a, S \ {d})

\* C11: with reg_lambda = 0, no I_acq_reg and default mode, a single-view call
\* over an accumulated vector without zero entries returns a candidate whose
\* sum over d of candidate[d] / accumulated[d] is largest; for accumulated
\* [2, 1, 1] and candidates A = [1, 1, 0], B = [0, 0, 2] the scores are 1.5
\* and 2 and B is returned.
C11_MaxQuotientSum ==
    (/\ pc = "ret"
     /\ reg_lambda = 0 /\ ~I_acq_reg /\ I_test = FALSE
     /\ selected_idxs # << >>
     /\ \A d \in DOMAIN H_train.v : H_train.v[d] # 0)
    => /\ \A j \in DOMAIN candidate_views :
            QuotDiff(renderLog[PickedPos].H.v, renderLog[j].H.v, H_train.v,
                     DOMAIN H_train.v) >= 0
       /\ (/\ H_train.v = <<2, 1, 1>>
           /\ Len(renderLog) = 2
           /\ renderLog[1].H.v = <<1, 1, 0>>
           /\ renderLog[2].H.v = <<0, 0, 2>>)
          => /\ acq_scores[1].k = "fin" /\ acq_scores[2].k = "fin"
             /\ 2 * acq_scores[1].n = 3 * ProdAbs(H_train.v, DOMAIN H_train.v)
             /\ acq_scores[2].n = 2 * ProdAbs(H_train.v, DOMAIN H_train.v)
             /\ selected_idxs = <<candidate_views[2]>>

C11_Witness ==
    /\ pc = "ret"
    /\ reg_lambda = 0 /\ ~I_acq_reg /\ I_test = FALSE
    /\ H_train.v = <<2, 1, 1>>
    /\ Len(renderLog) = 2
    /\ renderLog[1].H.v = <<1, 1, 0>>
    /\ renderLog[2].H.v = <<0, 0, 2>>
    /\ selected_idxs = <<candidate_views[2]>>

\* ----------------------------- the ranking at the end of select_single_view
\* values acq_scores can hold when the loop over the candidates has ended
ScoreVals == {2, 5, 9}

\* the state at "if self.I_test == True" after the loop of select_single_view
InitRank ==
    /\ I_test \in BOOLEAN
    /\ I_acq_reg \in BOOLEAN
    /\ reg_lambda \in RegLambdas
    /\ filter_out_grad = DefaultFilterOut
    /\ filter_out_idx = FilterOutIdx(DefaultFilterOut)
    /\ all_train_set = CameraRange(NumCams)
    /\ numel = NumelWith(2)
    /\ grad = << >>
    /\ train_idxs \in InitViews
    /\ candidate_views_filter = "None"
    /\ pc = "single_pass"
    /\ iteration = 1
    /\ selected_bound = FALSE
    /\ selected_views = << >>
    /\ last_pth = << >>
    /\ crash = "none"
    /\ num_views = 1
    /\ viewpoint_cams = << >>
    /\ candidate_cameras = getCandidateCameras(train_idxs, "None")
    /\ candidate_views = get_candidate_set(train_idxs, "None")
    /\ pos = Len(candidate_cameras) + 1
    /\ H_train = torch_zeros
    /\ I_train = InformationGain(H_train)
    /\ H_candidates = << >>
    /\ acq_scores \in [DOMAIN candidate_cameras -> {Fin(n) : n \in ScoreVals}]
    /\ selected_idxs = << >>
    /\ outcome = "none"
    /\ raised_in = "none"
    /\ polls = Len(candidate_cameras)
    /\ renderLog = << >>

NextRank == SingleRank

SpecRank == InitRank /\ [][NextRank]_vars

\* C12 as stated: for scores [5, 2, 9] default mode returns the index of the
\* candidate with score 9 and inverse mode that of the candidate with score 5.
C12_InversePicksFive ==
    (pc = "ret" /\ acq_scores = <<Fin(5), Fin(2), Fin(9)>>)
    => selected_idxs = IF I_test = TRUE THEN <<candidate_views[1]>>
                       ELSE <<candidate_views[3]>>

\* C12, amended: for scores [5, 2, 9] default mode returns the index of the
\* candidate with score 9 and inverse mode that of the candidate with score 2,
\* the lowest.
C12_InversePicksTwo ==
    (pc = "ret" /\ acq_scores = <<Fin(5), Fin(2), Fin(9)>>)
    => selected_idxs = IF I_test = TRUE THEN <<candidate_views[2]>>
                       ELSE <<candidate_views[3]>>

C12_Witness ==
    /\ pc = "ret"
    /\ acq_scores = <<Fin(5), Fin(2), Fin(9)>>
    /\ I_test = TRUE
    /\ selected_idxs = <<candidate_views[2]>>

\* ------------------------------------------------ the greedy loop's picks
\* a step of the greedy loop that picks a candidate
GreedyPick == pc = "greedy" /\ Len(selected_idxs') = Len(selected_idxs) + 1

\* the position in the pool, before the step, of the candidate it picks
PickPos ==
    CHOOSE k \in DOMAIN candidate_views :
        candidate_views[k] = selected_idxs'[Len(selected_idxs')]

\* the positions of the scores no other score exceeds, for scores free of NaN
MaxPositions(sc) == {k \in DOMAIN sc : \A j \in DOMAIN sc : ~ScoreLess(sc[k], sc[j])}

NoNaN(sc) == \A k \in DOMAIN sc : sc[k].k # "nan"

\* C13: in every iteration of the greedy loop in which several remaining
\* candidates share the maximum acquisition score, the one picked is the
\* first of them in pool order.
C13_FirstOfTies ==
    [][GreedyPick =>
        LET sc == GreedyScores(H_train, H_candidates)
        IN (NoNaN(sc) /\ Cardinality(MaxPositions(sc)) > 1)
           => /\ PickPos \in MaxPositions(sc)
              /\ \A j \in MaxPositions(sc) : PickPos <= j]_vars

\* the candidate vector as the greedy loop scores it
Scored(cur_H) == IF I_acq_reg THEN VAddScalar(cur_H, 1) ELSE cur_H

\* after the first pick: every candidate left has the picked one's vector, so
\* they all tied at a number, and the pick precedes them in the pool
C13_Witness ==
    /\ pc = "greedy"
    /\ Len(selected_idxs) = 1
    /\ H_candidates # << >>
    /\ \A k \in DOMAIN H_candidates : H_candidates[k] = CandH(selected_idxs[1])
    /\ torch_sum_mul(Scored(CandH(selected_idxs[1])), I_train).k # "nan"
    /\ \A k \in DOMAIN candidate_views : selected_idxs[1] < candidate_views[k]

\* C14: every iteration of the greedy loop puts the index it takes out of the
\* pool at the end of selected_idxs, leaving the earlier entries in place, and
\* the list the call returns, which the training loop receives, is that list:
\* its j-th element is the index picked in the j-th iteration.
C14_SelectionOrder ==
    [][/\ (pc = "greedy" /\ candidate_views' # candidate_views)
          => \E x \in Range(candidate_views) \ Range(candidate_views') :
                selected_idxs' = Append(selected_idxs, x)
       /\ (pc = "greedy" /\ pc' = "ret") => selected_idxs' = selected_idxs
       /\ (pc = "ret" /\ num_views > 1) => selected_views' = selected_idxs]_vars

\* a returned list of two picks whose order is not the pool's
C14_Witness ==
    /\ pc = "crashed"
    /\ crash = "NameError"
    /\ Len(selected_views) = 2
    /\ selected_views[1] > selected_views[2]

\* C15: in every state of a selection call the gradient buffers are cleared,
\* and every per-view vector read so far is the gradient of its own view
\* alone: the first pass has accumulated exactly its views' gradients, every
\* entry of H_candidates is its candidate's gradient, and every score of the
\* single-view path is computed from its candidate's gradient.
C15_SingleViewGradients ==
    /\ grad = << >>
    /\ pc = "train_pass" => H_train = VSum(LogH(TrainLog))
    /\ pc = "cand_pass" => H_candidates = LogH(CandLog)
    /\ pc = "single_pass"
       => \A k \in 1..(pos - 1) : acq_scores[k] = SingleScore(H_train, CandLog[k].H)

\* two candidates with different finite gradients were rendered one after the
\* other, after a first pass over at least one view
C15_Witness ==
    /\ pc = "cand_pass"
    /\ viewpoint_cams # << >>
    /\ Len(H_candidates) = 2
    /\ ~H_candidates[1].nan /\ ~H_candidates[2].nan
    /\ H_candidates[1] # H_candidates[2]

\* ------------------------------------------------ HRegSelector.__init__
MaxFilterNames == 2

\* names args.filter_out_grad can hold: name2idx's keys and one other name
FilterNames == (DOMAIN name2idx) \cup {"deformation"}

FilterLists == UNION {[1..n -> FilterNames] : n \in 0..MaxFilterNames}

\* filter_out_idx of a selector whose constructor has not assigned it
NoIdx == <<-1>>

\* the state when HRegSelector(args) is called
InitCtor ==
    /\ I_test \in BOOLEAN
    /\ I_acq_reg \in BOOLEAN
    /\ reg_lambda \in RegLambdas
    /\ filter_out_grad \in FilterLists
    /\ filter_out_idx = NoIdx
    /\ all_train_set = CameraRange(NumCams)
    /\ numel = NumelWith(2)
    /\ grad = << >>
    /\ train_idxs = << >>
    /\ candidate_views_filter = "None"
    /\ pc = "construct"
    /\ iteration = 1
    /\ selected_bound = FALSE
    /\ selected_views = << >>
    /\ last_pth = << >>
    /\ crash = "none"
    /\ NoCall

Construct_mut ==
    /\ pc = "construct"
    /\ filter_out_idx' =
           FilterOutIdx(SelectSeq(filter_out_grad, LAMBDA k : k \in DOMAIN name2idx))
    /\ pc' = "constructed"
    /\ UNCHANGED <<I_test, I_acq_reg, reg_lambda, filter_out_grad, numel, all_train_set, grad, I_train, train_idxs,
                   candidate_views_filter, loopv, num_views, viewpoint_cams,
                   candidate_cameras, candidate_views, pos, H_train, H_candidates,
                   acq_scores, selected_idxs, outcome, raised_in, polls, renderLog>>

\* HRegSelector.__init__: name2idx[k] raises KeyError for a k that is no key,
\* and the exception leaves the caller without a selector
Construct ==
    /\ pc = "construct"
    /\ IF \A j \in DOMAIN filter_out_grad : filter_out_grad[j] \in DOMAIN name2idx
       THEN /\ filter_out_idx' = FilterOutIdx(filter_out_grad)
            /\ pc' = "constructed"
            /\ UNCHANGED crash
       ELSE /\ crash' = "KeyError"
            /\ pc' = "crashed"
            /\ UNCHANGED filter_out_idx
    /\ UNCHANGED <<I_test, I_acq_reg, reg_lambda, filter_out_grad, numel, all_train_set, grad, I_train, train_idxs,
                   candidate_views_filter, iteration, selected_bound, selected_views,
                   last_pth, num_views, viewpoint_cams, candidate_cameras, candidate_views,
                   pos, H_train, H_candidates, acq_scores, selected_idxs, outcome,
                   raised_in, polls, renderLog>>

NextCtor == Construct

SpecCtor == InitCtor /\ [][NextCtor]_vars

\* C16: a constructor call whose excluded-group list holds a name other than
\* xyz, rgb, sh, scale, rotation, opacity ends in an error, with no selector
\* constructed and no index list computed from the remaining names.
C16_UnknownNameFails ==
    (/\ pc # "construct"
     /\ \E j \in DOMAIN filter_out_grad :
           filter_out_grad[j] \notin {"xyz", "rgb", "sh", "scale", "rotation", "opacity"})
    => /\ pc = "crashed"
       /\ crash = "KeyError"
       /\ filter_out_idx = NoIdx

C16_Witness ==
    /\ pc = "crashed"
    /\ crash = "KeyError"
    /\ filter_out_grad = <<"rotation", "deformation">>

\* ------------------------------------- torch.reciprocal(H_train + reg_lambda)
\* entries of H_train: small ones, a negative one, and one at which float32
\* values lie 4 apart
GainVals == {-2, 1, 3, 2^25}

\* positive values of reg_lambda
GainLambdas == {1, 2, 3}

\* the state at "I_train = torch.reciprocal(H_train + self.reg_lambda)"
InitGain ==
    /\ I_test \in BOOLEAN
    /\ I_acq_reg \in BOOLEAN
    /\ reg_lambda \in GainLambdas
    /\ filter_out_grad = DefaultFilterOut
    /\ filter_out_idx = FilterOutIdx(DefaultFilterOut)
    /\ all_train_set = CameraRange(NumCams)
    /\ numel = NumelWith(2)
    /\ grad = << >>
    /\ train_idxs = << >>
    /\ candidate_views_filter = "None"
    /\ pc = "gain"
    /\ iteration = 1
    /\ selected_bound = FALSE
    /\ selected_views = << >>
    /\ last_pth = << >>
    /\ crash = "none"
    /\ num_views = 0
    /\ viewpoint_cams = << >>
    /\ candidate_cameras = << >>
    /\ candidate_views = << >>
    /\ pos = 0
    /\ H_train \in {Vec(<<a, b>>) : a, b \in GainVals}
    /\ I_train = NoGain
    /\ H_candidates = << >>
    /\ acq_scores = << >>
    /\ selected_idxs = << >>
    /\ outcome = "none"
    /\ raised_in = "none"
    /\ polls = 0
    /\ renderLog = << >>

\* I_train = torch.reciprocal(H_train + self.reg_lambda)
ComputeGain ==
    /\ pc = "gain"
    /\ I_train' = InformationGain(H_train)
    /\ pc' = "gain_done"
    /\ UNCHANGED <<cfg, grad, train_idxs, candidate_views_filter, loopv, num_views,
                   viewpoint_cams, candidate_cameras, candidate_views, pos, H_train,
                   H_candidates, acq_scores, selected_idxs, outcome, raised_in, polls,
                   renderLog>>

NextGain == ComputeGain

SpecGain == InitGain /\ [][NextGain]_vars

\* |1 / x| < |1 / y| for two denominators (1 / 0 is inf)
MagLess(x, y) == x # 0 /\ (y = 0 \/ Abs(y) < Abs(x))

\* C17 as stated: for a positive entry of H_train and positive reg_lambda, the
\* entry of reciprocal(H_train + lam) is strictly smaller in magnitude for
\* every lam greater than reg_lambda.
C17_GainStrictlyDecreasing ==
    pc = "gain_done"
    => \A lam \in GainLambdas, d \in DOMAIN H_train.v :
          (lam > reg_lambda /\ H_train.v[d] > 0)
          => MagLess(InformationGainAt(H_train, lam).den[d], I_train.den[d])

\* C17, amended: for a positive entry of H_train and positive reg_lambda, the
\* entry of reciprocal(H_train + lam) is never greater in magnitude for any
\* lam greater than reg_lambda.
C17_GainNotIncreasing ==
    pc = "gain_done"
    => \A lam \in GainLambdas, d \in DOMAIN H_train.v :
          (lam > reg_lambda /\ H_train.v[d] > 0)
          => ~MagLess(I_train.den[d], InformationGainAt(H_train, lam).den[d])

\* an entry whose sums with reg_lambda = 1 and with 2 are the same float32
\* value, next to one whose sums differ
C17_Witness ==
    /\ pc = "gain_done"
    /\ reg_lambda = 1
    /\ H_train.v = <<2^25, 3>>
    /\ InformationGainAt(H_train, 2).den[1] = I_train.den[1]
    /\ MagLess(InformationGainAt(H_train, 2).den[2], I_train.den[2])

\* C18: no step of a selection call, of its abort and of the abort's handling
\* changes scene.train_idxs (only the handling of a returned selection does),
\* and the checkpoint saved on abort stores that same list: after an abort
\* the training indices are those from before the call, with nothing from an
\* earlier round appended.
C18_AbortKeepsTrainIdxs ==
    [][/\ pc # "ret" => train_idxs' = train_idxs
       /\ pc = "raised"
          => last_pth' = <<[first_iter |-> iteration - 1, train_idx |-> train_idxs,
                            base_iter |-> 0]>>]_vars

\* an aborted call whose handling has run to its end: the checkpoint is
\* written and requeue has returned
C18_Witness ==
    /\ pc = "crashed"
    /\ crash = "UnboundLocalError"
    /\ outcome = "RuntimeError"
    /\ train_idxs # << >>
    /\ last_pth # << >>
    /\ last_pth[1].train_idx = train_idxs

\* the score the I_acq_reg flag is documented to give a candidate with
\* gradient cur_H: sum((cur_H + reg_lambda) * I_train)
RegularizedScore(H, cur_H) == torch_sum_mul(VAddScalar(cur_H, reg_lambda), InformationGain(H))

\* C19: with I_acq_reg set, the scores of the greedy loop and the scores the
\* single-view path stores are sum((candidate + reg_lambda) * information_gain).
C19_BothPathsAddLambda ==
    I_acq_reg
    => /\ (pc = "greedy" /\ Len(selected_idxs) < num_views)
          => \A k \in DOMAIN H_candidates :
                GreedyScores(H_train, H_candidates)[k] = RegularizedScore(H_train, H_candidates[k])
       /\ pc = "single_pass"
          => \A k \in 1..(pos - 1) : acq_scores[k] = RegularizedScore(H_train, CandLog[k].H)

\* s >= t as floats compare: false when either is NaN
ScoreGeq(s, t) == s.k # "nan" /\ t.k # "nan" /\ ~ScoreLess(s, t)

\* C20: in every iteration of the greedy loop the score of the candidate
\* picked, computed against H_train as it stands in that iteration, is greater
\* than or equal to the score of every other candidate in the pool.
C20_PickIsMaximum ==
    [][GreedyPick =>
        LET sc == GreedyScores(H_train, H_candidates)
        IN \A j \in (DOMAIN sc) \ {PickPos} : ScoreGeq(sc[PickPos], sc[j])]_vars

\* s < t as floats compare: false when either is NaN
IeeeLess(s, t) == s.k # "nan" /\ t.k # "nan" /\ ScoreLess(s, t)

\* the score of default mode for a candidate with gradient cur_H
DefaultScore(H, cur_H) ==
    torch_sum_mul(IF I_acq_reg THEN VAddScalar(cur_H, reg_lambda) ELSE cur_H,
                  InformationGain(H))

\* C21: when a single-view call returns an index in I_test mode, the scores it
\* ranked are those default mode computes, no candidate's score is less than
\* the returned candidate's, and when no score is NaN the returned
\* candidate's score is less than or equal to every candidate's.
C21_InverseReturnsMinimal ==
    (pc = "ret" /\ num_views = 1 /\ I_test = TRUE /\ selected_idxs # << >>)
    => /\ \A j \in DOMAIN acq_scores : acq_scores[j] = DefaultScore(H_train, CandLog[j].H)
       /\ \A j \in DOMAIN acq_scores : ~IeeeLess(acq_scores[j], acq_scores[PickedPos])
       /\ NoNaN(acq_scores)
          => \A j \in DOMAIN acq_scores : ScoreGeq(acq_scores[j], acq_scores[PickedPos])

\* an I_test call returned a candidate whose finite score is below another's
C21_Witness ==
    /\ pc = "ret" /\ num_views = 1 /\ I_test = TRUE
    /\ selected_idxs # << >>
    /\ NoNaN(acq_scores)
    /\ acq_scores[PickedPos].k = "fin"
    /\ \E j \in DOMAIN acq_scores :
          acq_scores[j].k = "fin" /\ ScoreLess(acq_scores[PickedPos], acq_scores[j])

\* 1 / x < 1 / y for two denominators, as floats compare (1 / 0 is +inf)
RecipLess(x, y) ==
    CASE y = 0 -> x # 0
      [] x = 0 -> FALSE
      [] x > 0 /\ y < 0 -> FALSE
      [] x < 0 /\ y > 0 -> TRUE
      [] OTHER -> y < x

\* C22: for every two entries a < b of H_train, whatever values the sums of
\* the views' gradients have, reciprocal(b + reg_lambda) is smaller than
\* reciprocal(a + reg_lambda).
C22_LargerEntrySmallerGain ==
    pc = "gain_done"
    => \A d, e \in DOMAIN H_train.v :
          H_train.v[d] < H_train.v[e] => RecipLess(I_train.den[e], I_train.den[d])

\* C23: in the greedy loop candidate_views and H_candidates have the same
\* length, entry i of H_candidates is the gradient read for camera
\* candidate_views[i], and after j picks both hold the initial pool size
\* minus j entries.
C23_PoolAligned ==
    pc = "greedy"
    => /\ Len(candidate_views) = Len(H_candidates)
       /\ \A i \in DOMAIN candidate_views : H_candidates[i] = CandH(candidate_views[i])
       /\ Len(candidate_views) = Len(candidate_cameras) - Len(selected_idxs)

\* one pick was taken from behind the first pool entry, and the two entries
\* left hold different vectors
C23_Witness ==
    /\ pc = "greedy"
    /\ Len(selected_idxs) = 1
    /\ Len(candidate_views) = 2
    /\ selected_idxs[1] > candidate_views[1]
    /\ H_candidates[1] # H_candidates[2]

\* the camera indices the candidate loops have rendered in this call
RenderedCandidates == {CandLog[k].cam[2] : k \in DOMAIN CandLog}

\* C24: with candidate_views_filter set (here: the even indices), every camera
\* the candidate loops render and score is an unobserved training camera
\* whose index satisfies the predicate, and so is every index the selection
\* returns and the training loop receives.
C24_FilterRespected ==
    candidate_views_filter = "even"
    => /\ InCall
          => /\ \A k \in DOMAIN CandLog : CandLog[k].cam[1] = "train"
             /\ \A i \in RenderedCandidates \cup Range(selected_idxs) :
                   i % 2 = 0 /\ i \in all_train_set \ Range(train_idxs)
       /\ \A k \in DOMAIN selected_views : selected_views[k] % 2 = 0

\* a filtered call returned an index although an unobserved camera with an
\* odd index was there
C24_Witness ==
    /\ pc = "ret"
    /\ candidate_views_filter = "even"
    /\ selected_idxs # << >>
    /\ RenderedCandidates # {}
    /\ \E i \in all_train_set \ Range(train_idxs) : i % 2 = 1

\* ------------------------------------------- the parameter filter of nbvs
\* values of args.filter_out_grad the selector is constructed with
ParamFilterLists ==
    {<< >>, <<"rotation">>, <<"xyz", "opacity">>, <<"sh", "sh">>, <<"scale", "rgb">>}

\* element counts of the six tensors of gaussians.capture()[1:7]
NumelSets == {<<1, 1, 1, 1, 1, 1>>, <<2, 1, 0, 1, 2, 1>>}

\* the gradients one backward pass leaves in the six tensors: the i-th tensor
\* holds c * i in each of its elements
GradOf(c) == [i \in 1..6 |-> [k \in 1..numel[i] |-> c * i]]

\* torch.cat([p.grad.detach().reshape(-1) for p in ps]) for gradients gr
RECURSIVE torch_cat(_, _)
torch_cat(gr, ps) == IF ps = << >> THEN << >> ELSE gr[Head(ps) + 1] \o torch_cat(gr, Tail(ps))

\* what modified_render + backward leave in params for one camera
ParamRenders == {[ok |-> TRUE, H |-> Vec(torch_cat(GradOf(c), params))] : c \in {0, 1}}

\* the training loop about to run a selection round, the selector constructed
InitParams ==
    /\ I_test \in BOOLEAN
    /\ I_acq_reg = FALSE
    /\ reg_lambda = 1
    /\ filter_out_grad \in ParamFilterLists
    /\ filter_out_idx = FilterOutIdx(filter_out_grad)
    /\ all_train_set = CameraRange(NumCams)
    /\ numel \in NumelSets
    /\ grad = << >>
    /\ train_idxs \in {<<0>>, <<1, 0>>}
    /\ candidate_views_filter = "None"
    /\ pc = "loop"
    /\ iteration = 1
    /\ selected_bound = FALSE
    /\ selected_views = << >>
    /\ last_pth = << >>
    /\ crash = "none"
    /\ NoCall

TrainPassCamParams == TrainPassCamOver(ParamRenders)
CandPassCamParams == CandPassCamOver(ParamRenders)
SingleCamParams == SingleCamOver(ParamRenders)

NextParams ==
    \/ CallNbvs
    \/ TrainPassCamParams
    \/ TrainPassEnd
    \/ CandPassCamParams
    \/ CandPassEnd
    \/ GreedyIter
    \/ GreedyReturn
    \/ SingleCamParams
    \/ SingleRank

SpecParams == InitParams /\ [][NextParams]_vars

\* the tensors no name of filter_out_grad stands for, in capture order
KeptGroups ==
    SelectSeq(<<"xyz", "rgb", "sh", "scale", "rotation", "opacity">>,
              LAMBDA n : n \notin Range(filter_out_grad))

RECURSIVE KeptLen(_)
KeptLen(ns) == IF ns = << >> THEN 0 ELSE numel[name2idx[Head(ns)] + 1] + KeptLen(Tail(ns))

\* the gradients of the kept tensors laid end to end, in capture order
RECURSIVE KeptCat(_, _)
KeptCat(c, ns) ==
    IF ns = << >> THEN << >>
    ELSE [k \in 1..numel[name2idx[Head(ns)] + 1] |-> c * (name2idx[Head(ns)] + 1)]
         \o KeptCat(c, Tail(ns))

\* C25: within one nbvs call every curvature vector (the accumulator, every
\* view's vector of the training pass, of the candidate pass and of the
\* single-view pass, and every stored candidate vector) has as its length the
\* sum of the element counts of the parameter groups that filter_out_grad does
\* not name, and a view's vector is those groups' gradients in capture order
C25_VectorLength ==
    InCall =>
        /\ Len(H_train.v) = KeptLen(KeptGroups)
        /\ \A k \in DOMAIN H_candidates : Len(H_candidates[k].v) = KeptLen(KeptGroups)
        /\ \A k \in DOMAIN renderLog :
               /\ Len(renderLog[k].H.v) = KeptLen(KeptGroups)
               /\ \E c \in {0, 1} : renderLog[k].H.v = KeptCat(c, KeptGroups)

\* a greedy call that excluded a non-empty group and has rendered training
\* views and candidates
C25_Witness ==
    /\ pc = "greedy"
    /\ filter_out_grad = <<"xyz", "opacity">>
    /\ numel = <<2, 1, 0, 1, 2, 1>>
    /\ Len(H_train.v) = 4
    /\ TrainLog # << >>
    /\ Len(H_candidates) = 2

\* C26: through every selection round of the training loop, returned or
\* aborted, scene.train_idxs holds no camera index twice
C26_NoDuplicateTrainIdx == NoDup(train_idxs)

\* a round whose two selected views were appended to a non-empty train_idxs
C26_Witness ==
    /\ selected_bound
    /\ Len(selected_views) = 2
    /\ Len(train_idxs) = 3
    /\ SubSeq(train_idxs, 2, 3) = selected_views

\* the steps of one nbvs call, from its first loop to its return statement
CallStep == pc \in {"train_pass", "cand_pass", "single_pass", "greedy"}

\* C27: no step of an nbvs call changes scene.train_idxs or what
\* scene.get_candidate_set() returns; the greedy loop's pops shorten only the
\* call's own candidate_views
C27_CallLeavesSceneUnchanged ==
    [][CallStep =>
          /\ train_idxs' = train_idxs
          /\ get_candidate_set(train_idxs', candidate_views_filter') =
                 get_candidate_set(train_idxs, candidate_views_filter)]_vars

\* a greedy call about to return two indices: its own list lost them, the
\* scene's candidate set still has them
C27_Witness ==
    /\ pc = "ret"
    /\ Len(selected_idxs) = 2
    /\ Len(candidate_views) = Len(get_candidate_set(train_idxs, candidate_views_filter)) - 2
    /\ Range(selected_idxs) \subseteq Range(get_candidate_set(train_idxs, candidate_views_filter))
    /\ Range(selected_idxs) \cap Range(candidate_views) = {}

\* ------------------------------------- one model state, any training order
OrderCams == 5      \* cameras of the scene whose training order is varied

\* the gradient vector the fixed model state gives camera i
OrderGrad(i) ==
    CASE i = 0 -> <<2^24, 0>>
      [] i \in {1, 2} -> <<1, 0>>
      [] i = 3 -> <<2^24 + 2, 0>>
      [] i = 4 -> <<0, 1>>
      [] OTHER -> <<0, 0>>

\* modified_render + backward for camera cam: the model state fixes the result
OrderRender(cam) == [ok |-> TRUE, H |-> Vec(OrderGrad(cam[2]))]

\* every listing of the set S as a duplicate-free list
Orders(S) == {s \in [1..Cardinality(S) -> S] : Range(s) = S}

\* the training loop about to run a selection round on a scene whose
\* train_idxs lists cameras 0, 1, 2 in some order
InitOrder ==
    /\ I_test = FALSE
    /\ I_acq_reg \in BOOLEAN
    /\ reg_lambda \in {1, 2}
    /\ filter_out_grad = DefaultFilterOut
    /\ filter_out_idx = FilterOutIdx(DefaultFilterOut)
    /\ all_train_set = CameraRange(OrderCams)
    /\ numel = NumelWith(2)
    /\ grad = << >>
    /\ train_idxs \in Orders({0, 1, 2})
    /\ candidate_views_filter = "None"
    /\ pc = "loop"
    /\ iteration = 1
    /\ selected_bound = FALSE
    /\ selected_views = << >>
    /\ last_pth = << >>
    /\ crash = "none"
    /\ NoCall

TrainPassCamOrder == TrainPassCamOver({OrderRender(viewpoint_cams[pos])})
CandPassCamOrder == CandPassCamOver({OrderRender(candidate_cameras[pos])})
SingleCamOrder == SingleCamOver({OrderRender(candidate_cameras[pos])})

NextOrder ==
    \/ CallNbvs
    \/ TrainPassCamOrder
    \/ TrainPassEnd
    \/ CandPassCamOrder
    \/ CandPassEnd
    \/ GreedyIter
    \/ GreedyReturn
    \/ SingleCamOrder
    \/ SingleRank

SpecOrder == InitOrder /\ [][NextOrder]_vars

\* H_train after a training pass over the cameras cams, in list order
RECURSIVE PassOver(_, _)
PassOver(H, cams) ==
    IF cams = << >> THEN H ELSE PassOver(Accumulate(H, Vec(OrderGrad(Head(cams)))), Tail(cams))

\* the first index a call returns when train_idxs lists the same training
\* set in ascending order
AscendingFirst ==
    LET H == PassOver(torch_zeros, sorted(Range(train_idxs)))
        cv == get_candidate_set(sorted(Range(train_idxs)), candidate_views_filter)
        Hc == [k \in DOMAIN cv |-> Vec(OrderGrad(cv[k]))]
    IN IF num_views = 1
       THEN {cv[k] : k \in torch_sort_first(RankedScores(SingleScores(H, Hc)))}
       ELSE {cv[np_argmax(GreedyScores(H, Hc))]}

\* C28 as stated: a call returns the indices that the call on the ascending
\* listing of the same training set returns, here compared on the first index
C28_SameListAnyOrder ==
    (pc = "ret" /\ selected_idxs # << >>) => selected_idxs[1] \in AscendingFirst

\* C28: within a call the candidate cameras are the unobserved indices that
\* pass the filter, each once, in ascending index order, whatever the order
\* of scene.train_idxs
C28_CandidatesAscending ==
    InCall =>
        /\ Len(candidate_cameras) =
               Cardinality({i \in all_train_set \ Range(train_idxs) :
                               FilterPass(candidate_views_filter, i)})
        /\ \A k \in DOMAIN candidate_cameras :
               /\ candidate_cameras[k][2] \in all_train_set \ Range(train_idxs)
               /\ FilterPass(candidate_views_filter, candidate_cameras[k][2])
        /\ \A j, k \in DOMAIN candidate_cameras :
               j < k => candidate_cameras[j][2] < candidate_cameras[k][2]

\* a call on a training list that is not ascending, with two candidates
C28_Witness ==
    /\ pc = "ret"
    /\ train_idxs = <<2, 1, 0>>
    /\ Len(candidate_cameras) = 2
    /\ selected_idxs # << >>

\* ------------------------------------------------------------ checkpoints
\* load_checkpoint(ckpt_path, ...) for a file holding ckpt, on a scene whose
\* train_idxs is tr: the scene's train_idxs afterwards and the values returned
load_checkpoint(ckpt, tr, ignore_train_idxs) ==
    [train_idxs |-> IF ~ignore_train_idxs THEN ckpt.train_idx ELSE tr,
     first_iter |-> ckpt.first_iter,
     base_iter |-> ckpt.base_iter]

\* C29 as stated: loading the file that save_checkpoint wrote gives back the
\* saved train_idxs, iteration and base_iter, loading it with
\* ignore_train_idxs leaves scene.train_idxs as it is, and after a selection
\* round has appended its indices the reload of the initial checkpoint
\* completes with the appended indices still in scene.train_idxs
C29_AppendedSurviveReload ==
    /\ last_pth # << >> =>
           /\ load_checkpoint(last_pth[1], << >>, FALSE) =
                  [train_idxs |-> train_idxs, first_iter |-> iteration - 1, base_iter |-> 0]
           /\ load_checkpoint(last_pth[1], train_idxs, TRUE).train_idxs = train_idxs
    /\ selected_bound =>
           /\ crash = "none"
           /\ Len(train_idxs) >= Len(selected_views)
           /\ SubSeq(train_idxs, Len(train_idxs) - Len(selected_views) + 1, Len(train_idxs))
                  = selected_views

=============================================================================
